---- MODULE Spec2Model ----
(***************************************************************************)
(* A model of the EMEC-2021 event web service: the catalog build          *)
(* (emec.py), the FDSN query parameters and serializers (fdsn.py) and the *)
(* request handler (flaskapp.py).                                         *)
(*                                                                         *)
(* Floats are integers counting tenths (magnitude 6.5 is 65, depth 10 km  *)
(* is 100, latitude 40 is 400); times are whole seconds since the epoch,  *)
(* the server's local time zone being UTC.  The model checker's integers  *)
(* are 32 bits wide, which holds the seconds of the years 1902 to 2037:   *)
(* the rows of the model that are converted lie in these years.  Of the   *)
(* raw date columns, year, month, day, hour and minute hold whole numbers *)
(* and second, like every other float, counts tenths (59.7 s is 597).     *)
(***************************************************************************)
EXTENDS Integers, Sequences, FiniteSets, TLC

(***************************************************************************)
(* Bounds of the model.                                                    *)
(***************************************************************************)
NThreads == 2    \* request threads of the server process
MaxParams == 2   \* query parameters of one request
MaxRows == 2     \* rows of the remote source of the normalisation workload

(***************************************************************************)
(* Missing values.  pandas holds a missing number as the float NaN, and a  *)
(* missing string of an object column as NaN too; the model keeps one      *)
(* marker per type, since the two are never compared with each other.      *)
(***************************************************************************)
NaN == -1000000
NA == "<NA>"

isna(x) == x = NaN

\* float comparisons: every comparison with NaN is False
GE(a, b) == ~isna(a) /\ ~isna(b) /\ a >= b
LE(a, b) == ~isna(a) /\ ~isna(b) /\ a <= b
GT(a, b) == ~isna(a) /\ ~isna(b) /\ a > b
LT(a, b) == ~isna(a) /\ ~isna(b) /\ a < b

fillna(x, v) == IF isna(x) THEN v ELSE x

\* astype(int) of a float counting tenths: the fraction is cut, towards zero
astype_int(x) == IF x >= 0 THEN x \div 10 ELSE -((-x) \div 10)

(***************************************************************************)
(* datetime: the proleptic Gregorian calendar of Python's datetime.        *)
(***************************************************************************)
MINYEAR == 1
MAXYEAR == 9999
EpochOrdinal == 719163   \* date(1970, 1, 1).toordinal()

is_leap(y) == y % 4 = 0 /\ (y % 100 # 0 \/ y % 400 = 0)

days_in_month(y, m) ==
    IF m = 2 THEN (IF is_leap(y) THEN 29 ELSE 28)
    ELSE IF m \in {4, 6, 9, 11} THEN 30 ELSE 31

days_before_year(y) ==
    (y - 1) * 365 + ((y - 1) \div 4) - ((y - 1) \div 100) + ((y - 1) \div 400)

RECURSIVE days_before_month(_, _)
days_before_month(y, m) ==
    IF m = 1 THEN 0 ELSE days_before_month(y, m - 1) + days_in_month(y, m - 1)

\* datetime(y, mo, d) raises ValueError outside these ranges
valid_date(y, mo, d) ==
    /\ y >= MINYEAR /\ y <= MAXYEAR
    /\ mo >= 1 /\ mo <= 12
    /\ d >= 1 /\ d <= days_in_month(y, mo)

toordinal(y, mo, d) == days_before_year(y) + days_before_month(y, mo) + d

\* (datetime(y, mo, d) + timedelta(seconds=s)).timestamp()
to_datetime(y, mo, d, s) == (toordinal(y, mo, d) - EpochOrdinal) * 86400 + s

\* datetime.fromtimestamp(ts): <<year, month, day, hour, minute, second>>
fromtimestamp(ts) ==
    LET ord == (ts \div 86400) + EpochOrdinal
        sec == ts % 86400
        y == CHOOSE yy \in 1900..2040 :
                 days_before_year(yy) < ord /\ ord <= days_before_year(yy + 1)
        n == ord - days_before_year(y)
        mo == CHOOSE mm \in 1..12 :
                 /\ days_before_month(y, mm) < n
                 /\ n <= days_before_month(y, mm) + days_in_month(y, mm)
        d == n - days_before_month(y, mo)
    IN <<y, mo, d, sec \div 3600, (sec % 3600) \div 60, sec % 60>>

two(n) == IF n < 10 THEN "0" \o ToString(n) ELSE ToString(n)

\* datetime.isoformat() of a datetime without microseconds
isoformat(dt) ==
    ToString(dt[1]) \o "-" \o two(dt[2]) \o "-" \o two(dt[3]) \o "T"
        \o two(dt[4]) \o ":" \o two(dt[5]) \o ":" \o two(dt[6])

(***************************************************************************)
(* emec.py: the normalisation of the source catalog.                       *)
(***************************************************************************)
\* the columns of the canonical catalog
EmecField == [eventid |-> "event_id", time |-> "time", lat |-> "latitude",
              lon |-> "longitude", mag |-> "magnitude",
              magtype |-> "magnitudetype", originalmag |-> "originalmag",
              originalmagtype |-> "originalmagtype", depth |-> "depth",
              iscid |-> "isc_id"]

\* the datetime dataframe of one row: year, month, day and total seconds
dtime_df(r) ==
    LET mo0 == fillna(r.month, 0)
        d0 == fillna(r.day, 0)
    IN [year |-> r.year,
        month |-> IF mo0 = 0 THEN 1 ELSE mo0,
        day |-> IF d0 = 0 THEN 1 ELSE d0,
        second |-> fillna(r.hour, 0) * 3600 + fillna(r.minute, 0) * 60
                       + astype_int(fillna(r.second, 0))]

\* the rows kept: historic events (before 1900) are filtered out
post1900(src_catalog) == SelectSeq(src_catalog, LAMBDA r : GE(r.year, 1900))

\* whether a kept row makes the processing raise: astype(int) of a missing
\* event id, or a day or month that datetime() rejects
row_raises(r) ==
    LET dt == dtime_df(r)
    IN isna(r.event_id) \/ ~valid_date(dt.year, dt.month, dt.day)

\* the column without fillna(0)
isc_id_column_nofill(r) == r.isc_id

\* ret[EmecField.iscid].fillna(0).astype(int): a missing isc_id becomes 0
isc_id_column(r) == fillna(r.isc_id, 0)

\* one row of the canonical catalog
canonical_row(r) ==
    LET dt == dtime_df(r)
    IN [event_id |-> r.event_id,
        time |-> to_datetime(dt.year, dt.month, dt.day, dt.second),
        latitude |-> r.latitude,
        longitude |-> r.longitude,
        magnitude |-> r.mw,
        magnitudetype |-> "Mw",
        originalmag |-> r.originalmag,
        originalmagtype |-> IF r.originalmagtype = NA THEN "" ELSE r.originalmagtype,
        depth |-> r.depth,
        isc_id |-> isc_id_column(r)]

\* process_source_catalog: [ok |-> FALSE] when it raises, else the catalog
process_source_catalog(src_catalog) ==
    LET ret == post1900(src_catalog)
    IN IF \E i \in 1..Len(ret) : row_raises(ret[i])
       THEN [ok |-> FALSE, df |-> <<>>]
       ELSE [ok |-> TRUE, df |-> [i \in 1..Len(ret) |-> canonical_row(ret[i])]]

(***************************************************************************)
(* fdsn.py: the query parameters.                                          *)
(***************************************************************************)
\* the enum Param: short name |-> verbose name
Param == [minlat |-> "minlatitude", maxlat |-> "maxlatitude",
          minlon |-> "minlongitude", maxlon |-> "maxlongitude",
          minmag |-> "minmagnitude", maxmag |-> "maxmagnitude",
          mindepth |-> "mindepth", maxdepth |-> "maxdepth",
          magtype |-> "magnitudetype", start |-> "starttime",
          end |-> "endtime", orderby |-> "orderby", format |-> "format"]

\* Param(param), then Param[param]; "" when both fail
lookup_param(param) ==
    IF \E n \in DOMAIN Param : Param[n] = param
    THEN CHOOSE n \in DOMAIN Param : Param[n] = param
    ELSE IF param \in DOMAIN Param THEN param ELSE ""

\* float(value) on the literals of the model; the others raise ValueError
FloatLiterals == [x \in {"5", "6", "6.5", "7", "10", "20", "40", "nan"} |->
    CASE x = "5" -> 50 [] x = "6" -> 60 [] x = "6.5" -> 65 [] x = "7" -> 70
      [] x = "10" -> 100 [] x = "20" -> 200 [] x = "40" -> 400 [] x = "nan" -> NaN]

\* datetime.fromisoformat(value) on the literals of the model
IsoLiterals == [x \in {"2009-01-01", "2009-01-01T12:00:00"} |->
    CASE x = "2009-01-01" -> <<2009, 1, 1, 0>>
      [] x = "2009-01-01T12:00:00" -> <<2009, 1, 1, 43200>>]

\* the sort keys and directions of orderby
OrderBy == [x \in {"time", "time-asc", "magnitude", "magnitude-asc"} |->
    CASE x = "time" -> <<EmecField.time, FALSE>>
      [] x = "time-asc" -> <<EmecField.time, TRUE>>
      [] x = "magnitude" -> <<EmecField.mag, FALSE>>
      [] x = "magnitude-asc" -> <<EmecField.mag, TRUE>>]

invalid(msg) == [ok |-> FALSE, param |-> "", value |-> "", msg |-> msg]
valid(col, v) == [ok |-> TRUE, param |-> col, value |-> v, msg |-> ""]

\* validate_param: ok with the Param and the cast value, or the ValueError
validate_param(param, value) ==
    LET col == lookup_param(param)
    IN IF col = "" THEN invalid("unknown parameter " \o param)
       ELSE IF col \in {"start", "end"}
       THEN IF value \in DOMAIN IsoLiterals
            THEN LET dt == IsoLiterals[value]
                 IN valid(col, to_datetime(dt[1], dt[2], dt[3], dt[4]))
            ELSE invalid("Invalid isoformat string: " \o value)
       ELSE IF col = "magtype" THEN valid(col, value)
       ELSE IF col = "orderby"
       THEN IF value \in DOMAIN OrderBy
            THEN valid(col, OrderBy[value])
            ELSE invalid("Invalid value for orderby: " \o value)
       ELSE IF col = "format"
       THEN IF value \notin {"text", "xml"}
            THEN invalid("Invalid value for format: " \o value)
            ELSE valid(col, value)
       ELSE IF value \in DOMAIN FloatLiterals
            THEN valid(col, FloatLiterals[value])
            ELSE invalid("could not convert string to float: " \o value)

(***************************************************************************)
(* DataFrame.sort_values(by, ascending) with the default kind 'quicksort'  *)
(* and na_position 'last': rows whose key is NaN go last in their previous *)
(* order; the others are sorted by the key, and since quicksort is not a   *)
(* stable sort the order of rows with equal keys is any order.  The        *)
(* operator is the set of the frames the call may return.                  *)
(***************************************************************************)
in_order(a, b, by, ascending) ==
    IF ascending THEN a[by] <= b[by] ELSE a[by] >= b[by]

\* the ways to insert row e in the sorted sequence p that keep it sorted
inserts(e, p, by, ascending) ==
    {SubSeq(p, 1, k) \o <<e>> \o SubSeq(p, k + 1, Len(p)) :
        k \in {j \in 0..Len(p) :
                  /\ (j = 0 \/ in_order(p[j], e, by, ascending))
                  /\ (j = Len(p) \/ in_order(e, p[j + 1], by, ascending))}}

RECURSIVE argsort(_, _, _)
argsort(rows, by, ascending) ==
    IF rows = <<>> THEN {<<>>}
    ELSE UNION {inserts(Head(rows), p, by, ascending) :
                   p \in argsort(Tail(rows), by, ascending)}

\* na_position 'first'
sort_values_nafirst(catalog, by, ascending) ==
    {SelectSeq(catalog, LAMBDA e : isna(e[by])) \o p :
        p \in argsort(SelectSeq(catalog, LAMBDA e : ~isna(e[by])), by, ascending)}

sort_values(catalog, by, ascending) ==
    {p \o SelectSeq(catalog, LAMBDA e : isna(e[by])) :
        p \in argsort(SelectSeq(catalog, LAMBDA e : ~isna(e[by])), by, ascending)}

(***************************************************************************)
(* apply_query_param: the frames the call may return (one, but for         *)
(* orderby), and what the call leaves in the frame it was given.           *)
(***************************************************************************)
\* the bound with >= in the place of >
minmag_inclusive(catalog, value) ==
    SelectSeq(catalog, LAMBDA e : GE(e.magnitude, value))

\* catalog[catalog[EmecField.mag] > value]
minmag_filter(catalog, value) ==
    SelectSeq(catalog, LAMBDA e : GT(e.magnitude, value))

apply_query_param(catalog, param, value) ==
    IF param = "start" THEN {SelectSeq(catalog, LAMBDA e : GE(e.time, value))}
    ELSE IF param = "end" THEN {SelectSeq(catalog, LAMBDA e : LE(e.time, value))}
    ELSE IF param = "minlat" THEN {SelectSeq(catalog, LAMBDA e : GE(e.latitude, value))}
    ELSE IF param = "maxlat" THEN {SelectSeq(catalog, LAMBDA e : LE(e.latitude, value))}
    ELSE IF param = "minlon" THEN {SelectSeq(catalog, LAMBDA e : GE(e.longitude, value))}
    ELSE IF param = "maxlon" THEN {SelectSeq(catalog, LAMBDA e : LE(e.longitude, value))}
    ELSE IF param = "minmag" THEN {minmag_filter(catalog, value)}
    ELSE IF param = "maxmag" THEN {SelectSeq(catalog, LAMBDA e : LT(e.magnitude, value))}
    ELSE IF param = "mindepth" THEN {SelectSeq(catalog, LAMBDA e : GT(e.depth, value))}
    ELSE IF param = "maxdepth" THEN {SelectSeq(catalog, LAMBDA e : LT(e.depth, value))}
    ELSE IF param = "orderby" THEN sort_values(catalog, value[1], value[2])
    ELSE {catalog}

\* a sort in place (sort_values(inplace=True)) would leave the frame sorted
input_sorted_inplace(catalog, param, value) ==
    IF param = "orderby"
    THEN CHOOSE p \in sort_values(catalog, value[1], value[2]) : TRUE
    ELSE catalog

\* boolean indexing and sort_values build a new frame: the input is as it was
input_after_apply(catalog, param, value) == catalog

(***************************************************************************)
(* fdsn.py: the serializers.  A text line is the sequence of its fields,   *)
(* which the code joins with '|'.                                          *)
(***************************************************************************)
TextHeader == <<"#EventID", "Time", "Latitude", "Longitude", "Depth/km", "Author",
                "Catalog", "Contributor", "ContributorID", "MagType", "Magnitude",
                "MagAuthor", "EventLocationName", "EventType">>

abs(x) == IF x < 0 THEN 0 - x ELSE x

\* str() of a float counted in tenths
float_str(x) ==
    (IF x < 0 THEN "-" ELSE "") \o ToString(abs(x) \div 10) \o "." \o ToString(abs(x) % 10)

\* catalog_iterator(na_repr=''): a missing value is the empty string
text_float(x) == IF isna(x) THEN "" ELSE float_str(x)

\* the label with >= in the place of >
contributor_nonneg(isc_id) == IF isc_id >= 0 THEN "ISC" ELSE ""

\* c = 'ISC' if isc_id > 0 else ''
contributor(isc_id) == IF isc_id > 0 THEN "ISC" ELSE ""

\* cid = isc_id if isc_id > 0 else ''
contributor_id(isc_id) == IF isc_id > 0 THEN ToString(isc_id) ELSE ""

text_line(e) ==
    <<ToString(e.event_id),
      IF e.time = 0 THEN "" ELSE isoformat(fromtimestamp(e.time)),
      text_float(e.latitude), text_float(e.longitude), text_float(e.depth), "",
      "EMEC-2021", contributor(e.isc_id), contributor_id(e.isc_id),
      e.magnitudetype, text_float(e.magnitude), "", "", "earthquake">>

to_text(catalog) == <<TextHeader>> \o [i \in 1..Len(catalog) |-> text_line(catalog[i])]

\* rid: the QuakeML id of a resource of this catalog
rid(resid) == "smi:org.gfz-potsdam.de/EMEC-2021/" \o resid

event_element(e) ==
    LET ev_id == ToString(e.event_id)
    IN [resource_id |-> rid(ev_id),
        origins |-> <<[latitude |-> e.latitude, longitude |-> e.longitude,
                       depth |-> e.depth, time |-> fromtimestamp(e.time),
                       resource_id |-> rid("origin/" \o ev_id)]>>,
        magnitudes |-> <<[mag |-> e.magnitude, magnitude_type |-> e.magnitudetype,
                          resource_id |-> rid("magnitude/" \o ev_id)],
                         [mag |-> e.originalmag, magnitude_type |-> e.originalmagtype,
                          resource_id |-> rid("original-magnitude/" \o ev_id)]>>,
        creation_info |->
            IF e.isc_id > 0
            THEN <<[agency_id |-> "ISC",
                    agency_uri |-> "smi:www.isc.ac.uk/fdsnws/event/1/query?eventid="
                                       \o ToString(e.isc_id)]>>
            ELSE <<>>]

to_xml(catalog) == [i \in 1..Len(catalog) |-> event_element(catalog[i])]

(***************************************************************************)
(* The inputs of the model: raw rows of the remote source, and requests.   *)
(***************************************************************************)
Row(id, y, mo, d, h, mi, s, lat, lon, mw, omag, omagtype, depth, isc) ==
    [event_id |-> id, year |-> y, month |-> mo, day |-> d, hour |-> h,
     minute |-> mi, second |-> s, latitude |-> lat, longitude |-> lon,
     mw |-> mw, originalmag |-> omag, originalmagtype |-> omagtype,
     depth |-> depth, isc_id |-> isc]

R1 == Row(1, 2009, 1, 1, 0, 0, 0, 400, 200, 65, 63, "ML", 100, 0)
R2 == Row(2, 1950, NaN, NaN, NaN, NaN, NaN, 350, 250, NaN, 50, NA, NaN, NaN)
R3 == Row(3, 1899, 6, 1, 12, 0, 0, 410, 210, 60, 60, "Mw", 80, 0)
R4 == Row(4, 2009, 0, 0, 23, 59, 600, 450, 150, 65, 65, "Mw", 200, 7)
R5 == Row(NaN, 2000, 3, 4, 5, 6, 70, 380, 220, 55, 55, "Mw", 120, 0)
R6 == Row(6, 2010, 5, 5, 1, 2, 30, NaN, NaN, 70, NaN, "mb", 50, 12)
R7 == Row(7, 2011, 2, 30, 0, 0, 0, 390, 230, 52, 52, "Mw", 90, 0)
R8 == Row(8, 2009, 1, 1, 0, 0, 0, 400, 200, 70, 70, "Mw", 50, 0)

has_rows(rows) == post1900(rows) # <<>>

\* the source of the query workload and of the concurrent workload
QuerySource == <<R1, R2, R3, R4, R8>>
RaceSource == <<R1, R4>>

\* the sources of the normalisation workload
NormRows == {R1, R2, R3, R4, R5, R6, R7}
NormSources ==
    {rows \in UNION {[1..n -> NormRows] : n \in 1..MaxRows} : has_rows(rows)}

\* the sources of the timestamp workload: a historic row, then one row of
\* every combination of these date components
TimeYears == {1903, 1904, 2037}
TimeMonths == {NaN, 0, 2, 12}
TimeDays == {NaN, 0, 28, 29, 31}
TimeHours == {NaN, 23}
TimeMinutes == {NaN, 59}
TimeSeconds == {NaN, 0, 597, 600}
TimeRow(y, mo, d, h, mi, s) ==
    Row(9, y, mo, d, h, mi, s, 400, 200, 65, 65, "Mw", 100, 0)
TimeSources ==
    {<<R3, TimeRow(y, mo, d, h, mi, s)>> :
        y \in TimeYears, mo \in TimeMonths, d \in TimeDays,
        h \in TimeHours, mi \in TimeMinutes, s \in TimeSeconds}

\* the (name, rawValue) pairs of the query workload
ParamPairs ==
    {<<"minmag", "5">>, <<"minmag", "6.5">>, <<"minmag", "7">>,
     <<"minmagnitude", "6">>, <<"maxmag", "7">>, <<"mindepth", "10">>,
     <<"maxdepth", "10">>, <<"start", "2009-01-01">>, <<"endtime", "2009-01-01">>,
     <<"minlat", "40">>, <<"maxlat", "40">>, <<"minlon", "20">>, <<"maxlon", "20">>,
     <<"orderby", "time">>, <<"orderby", "time-asc">>, <<"orderby", "magnitude">>,
     <<"orderby", "magnitude-asc">>, <<"orderby", "depth">>,
     <<"format", "text">>, <<"format", "xml">>, <<"magtype", "Mw">>,
     <<"mag>8", "7">>, <<"minmag", "abc">>, <<"minmag", "nan">>}

QueryRequests == UNION {[1..n -> ParamPairs] : n \in 0..MaxParams}

\* the requests of the other workloads: one of each kind of parameter
FewRequests == {<< <<"format", "text">> >>, << <<"minmag", "abc">> >>,
                << <<"orderby", "time">> >>}

\* the requests the clients of a workload send
Requests(kind) == IF kind = "query" THEN QueryRequests ELSE FewRequests

(***************************************************************************)
(* request.args, a MultiDict: iterating it gives each name once, in the    *)
(* order of its first occurrence; getlist gives the values of a name.      *)
(***************************************************************************)
RECURSIVE keys(_)
keys(params) ==
    IF params = <<>> THEN <<>>
    ELSE LET front == keys(SubSeq(params, 1, Len(params) - 1))
             name == params[Len(params)][1]
         IN IF \E i \in 1..Len(front) : front[i] = name
            THEN front ELSE Append(front, name)

getlist(params, prm) ==
    LET own == SelectSeq(params, LAMBDA p : p[1] = prm)
    IN [i \in 1..Len(own) |-> own[i][2]]

\* params.getlist(prm)[-1]
last_value(params, prm) == getlist(params, prm)[Len(getlist(params, prm))]

\* params.getlist(prm)[0]
first_value(params, name) == getlist(params, name)[1]

(***************************************************************************)
(* The state.                                                              *)
(***************************************************************************)
VARIABLES
    workload,   \* the threads that take requests, and the kind of requests sent
    src,        \* the rows of the catalog at SOURCE_URL
    src_file,   \* the local copy of the source, src_path
    hdf_file,   \* the cache file of the canonical catalog, dest_path
    _catalog,   \* flaskapp._catalog
    pc,         \* where each thread is in get_events
    req,        \* request.args of the thread's request
    idx,        \* the position of the loop over the parameters
    catalog,    \* the local variable catalog of get_events
    alias,      \* whether the local catalog is the object _catalog refers to
    method,     \* the serializer chosen
    mimetype,
    emec_df,    \* the frame create_catalog is about to return
    worker,     \* the task of the thread's ThreadPool
    resp        \* the response

vars == <<workload, src, src_file, hdf_file, _catalog, pc, req, idx, catalog,
          alias, method, mimetype, emec_df, worker, resp>>

Threads == 1..NThreads

TIMEOUT_S == 25

\* how long a serializer may run, in seconds
Durations == {TIMEOUT_S - 1, TIMEOUT_S + 1}

NoWorker == [state |-> "none", dur |-> 0, result |-> <<>>]
NoResponse == [status |-> 0, message |-> "", file |-> <<>>, mimetype |-> ""]
Absent == [state |-> "absent", rows |-> <<>>]

InitState ==
    /\ src_file = Absent
    /\ hdf_file = Absent
    /\ _catalog = [is_none |-> TRUE, df |-> <<>>]
    /\ pc = [t \in Threads |-> "idle"]
    /\ req = [t \in Threads |-> <<>>]
    /\ idx = [t \in Threads |-> 1]
    /\ catalog = [t \in Threads |-> <<>>]
    /\ alias = [t \in Threads |-> FALSE]
    /\ method = [t \in Threads |-> "to_xml"]
    /\ mimetype = [t \in Threads |-> "text/xml"]
    /\ emec_df = [t \in Threads |-> <<>>]
    /\ worker = [t \in Threads |-> NoWorker]
    /\ resp = [t \in Threads |-> NoResponse]

\* the server under concurrent requests
Init ==
    /\ workload = [threads |-> Threads, requests |-> "few"]
    /\ src = RaceSource
    /\ InitState

\* one thread, every request of the query workload
InitQuery ==
    /\ workload = [threads |-> {1}, requests |-> "query"]
    /\ src = QuerySource
    /\ InitState

\* one thread, every source of the normalisation workload
InitNorm ==
    /\ workload = [threads |-> {1}, requests |-> "few"]
    /\ src \in NormSources
    /\ InitState

\* one thread, every source of the timestamp workload
InitTime ==
    /\ workload = [threads |-> {1}, requests |-> "few"]
    /\ src \in TimeSources
    /\ InitState

(***************************************************************************)
(* flaskapp.py: get_events and get_catalog.                                *)
(***************************************************************************)
\* a request arrives at a thread that handles none
Request(t) ==
    /\ t \in workload.threads
    /\ pc[t] = "idle"
    /\ pc' = [pc EXCEPT ![t] = "get_catalog"]
    /\ \E params \in Requests(workload.requests) :
           req' = [req EXCEPT ![t] = params]
    /\ UNCHANGED <<workload, src, src_file, hdf_file, _catalog, idx, catalog, alias,
                   method, mimetype, emec_df, worker, resp>>

\* the response is sent and the locals of get_events go; a task that was
\* left running goes on with no effect on the state
Close(t) ==
    /\ pc[t] = "done"
    /\ pc' = [pc EXCEPT ![t] = "idle"]
    /\ req' = [req EXCEPT ![t] = <<>>]
    /\ idx' = [idx EXCEPT ![t] = 1]
    /\ catalog' = [catalog EXCEPT ![t] = <<>>]
    /\ alias' = [alias EXCEPT ![t] = FALSE]
    /\ method' = [method EXCEPT ![t] = "to_xml"]
    /\ mimetype' = [mimetype EXCEPT ![t] = "text/xml"]
    /\ emec_df' = [emec_df EXCEPT ![t] = <<>>]
    /\ worker' = [worker EXCEPT ![t] = NoWorker]
    /\ resp' = [resp EXCEPT ![t] = NoResponse]
    /\ UNCHANGED <<workload, src, src_file, hdf_file, _catalog>>

\* an exception that leaves get_events: the framework answers 500
raise(t, msg) ==
    /\ pc' = [pc EXCEPT ![t] = "done"]
    /\ resp' = [resp EXCEPT ![t] = [status |-> 500, message |-> msg,
                                    file |-> <<>>, mimetype |-> ""]]

\* get_catalog: the test of _catalog
GetCatalog(t) ==
    /\ pc[t] = "get_catalog"
    /\ IF _catalog.is_none
       THEN /\ pc' = [pc EXCEPT ![t] = "create_catalog"]
            /\ UNCHANGED <<catalog, alias>>
       ELSE /\ pc' = [pc EXCEPT ![t] = "params"]
            /\ catalog' = [catalog EXCEPT ![t] = _catalog.df]
            /\ alias' = [alias EXCEPT ![t] = TRUE]
    /\ UNCHANGED <<workload, src, src_file, hdf_file, _catalog, req, idx, method,
                   mimetype, emec_df, worker, resp>>

\* get_catalog: _catalog = create_catalog(), and catalog = get_catalog()
AssignCatalog(t) ==
    /\ pc[t] \in {"return_cached", "return_built"}
    /\ _catalog' = [is_none |-> FALSE, df |-> emec_df[t]]
    /\ catalog' = [catalog EXCEPT ![t] = emec_df[t]]
    /\ alias' = [u \in Threads |-> u = t]
    /\ pc' = [pc EXCEPT ![t] = "params"]
    /\ UNCHANGED <<workload, src, src_file, hdf_file, req, idx, method, mimetype,
                   emec_df, worker, resp>>

(***************************************************************************)
(* emec.py: create_catalog, one step per access to the files.              *)
(***************************************************************************)
build_frame == <<workload, src, _catalog, req, idx, catalog, alias, method,
                 mimetype, worker>>

\* the rows a reader may get from a file that is being written
torn(rows) == {SubSeq(rows, 1, k) : k \in 0..(Len(rows) - 1)}

\* if not force_reload and isfile(dest_path)
CheckCache(t) ==
    /\ pc[t] = "create_catalog"
    /\ pc' = [pc EXCEPT ![t] = IF hdf_file.state = "absent"
                               THEN "check_src" ELSE "read_hdf"]
    /\ UNCHANGED <<build_frame, src_file, hdf_file, emec_df, resp>>

\* the frames read_hdf may return: the file's, or part of it when it is read
\* while being written or after a write that failed
read_hdf(file) == IF file.state = "complete" THEN {file.rows} ELSE torn(file.rows)

\* return pd.read_hdf(dest_path)
ReadHdf(t) ==
    /\ pc[t] = "read_hdf"
    /\ \E df \in read_hdf(hdf_file) :
           emec_df' = [emec_df EXCEPT ![t] = df]
    /\ pc' = [pc EXCEPT ![t] = "return_cached"]
    /\ UNCHANGED <<build_frame, src_file, hdf_file, resp>>

\* read_hdf raises on a file that is not whole
ReadHdfFails(t) ==
    /\ pc[t] = "read_hdf"
    /\ hdf_file.state = "writing"
    /\ raise(t, "read_hdf")
    /\ UNCHANGED <<build_frame, src_file, hdf_file, emec_df>>

\* if force_reload or not isfile(src_path)
CheckSrc(t) ==
    /\ pc[t] = "check_src"
    /\ pc' = [pc EXCEPT ![t] = IF src_file.state = "absent"
                               THEN "fetch" ELSE "read_csv"]
    /\ UNCHANGED <<build_frame, src_file, hdf_file, emec_df, resp>>

\* open_source_catalog and open(src_path, 'wb'): the file is there, empty
Fetch(t) ==
    /\ pc[t] = "fetch"
    /\ src_file' = [state |-> "empty", rows |-> <<>>]
    /\ pc' = [pc EXCEPT ![t] = "write_src"]
    /\ UNCHANGED <<build_frame, hdf_file, emec_df, resp>>

\* urlopen raises
FetchFails(t) ==
    /\ pc[t] = "fetch"
    /\ raise(t, "urlopen")
    /\ UNCHANGED <<build_frame, src_file, hdf_file, emec_df>>

\* _dest.write(_src.read()) and the close of the file
WriteSrc(t) ==
    /\ pc[t] = "write_src"
    /\ src_file' = [state |-> "complete", rows |-> src]
    /\ pc' = [pc EXCEPT ![t] = "read_csv"]
    /\ UNCHANGED <<build_frame, hdf_file, emec_df, resp>>

\* _src.read() raises (a broken zip member): the empty file stays
WriteSrcFails(t) ==
    /\ pc[t] = "write_src"
    /\ raise(t, "read")
    /\ UNCHANGED <<build_frame, src_file, hdf_file, emec_df>>

\* the frames read_csv may return: none of a file that is still empty
read_csv(file) == IF file.state = "complete" THEN {file.rows} ELSE {}

\* ret = pd.read_csv(src_path); emec_df = process_source_catalog(ret)
ReadCsv(t) ==
    /\ pc[t] = "read_csv"
    /\ \E ret \in read_csv(src_file) :
           LET processed == process_source_catalog(ret)
           IN IF processed.ok
              THEN /\ emec_df' = [emec_df EXCEPT ![t] = processed.df]
                   /\ pc' = [pc EXCEPT ![t] = "to_hdf"]
                   /\ UNCHANGED resp
              ELSE /\ raise(t, "process_source_catalog")
                   /\ UNCHANGED emec_df
    /\ UNCHANGED <<build_frame, src_file, hdf_file>>

\* read_csv raises EmptyDataError on the empty file
ReadCsvFails(t) ==
    /\ pc[t] = "read_csv"
    /\ src_file.state = "empty"
    /\ raise(t, "read_csv")
    /\ UNCHANGED <<build_frame, src_file, hdf_file, emec_df>>

\* what to_hdf leaves at dest_path when it starts to write df
hdf_open(file, df) == [state |-> "writing", rows |-> df]

\* emec_df.to_hdf(dest_path, ...): the file is opened and the table started
OpenHdf(t) ==
    /\ pc[t] = "to_hdf"
    /\ hdf_file' = hdf_open(hdf_file, emec_df[t])
    /\ pc' = [pc EXCEPT ![t] = "write_hdf"]
    /\ UNCHANGED <<build_frame, src_file, emec_df, resp>>

\* to_hdf: the rows are written and the file closed
WriteHdf(t) ==
    /\ pc[t] = "write_hdf"
    /\ hdf_file' = [state |-> "complete", rows |-> emec_df[t]]
    /\ pc' = [pc EXCEPT ![t] = "return_built"]
    /\ UNCHANGED <<build_frame, src_file, emec_df, resp>>

\* to_hdf raises part-way (an I/O error): the file stays as it is
WriteHdfFails(t) ==
    /\ pc[t] = "write_hdf"
    /\ raise(t, "to_hdf")
    /\ UNCHANGED <<build_frame, src_file, hdf_file, emec_df>>

(***************************************************************************)
(* flaskapp.py: the loop over the parameters, and the serializer.          *)
(***************************************************************************)
query_frame == <<workload, src, src_file, hdf_file, emec_df>>

more_params(t) == pc[t] = "params" /\ idx[t] <= Len(keys(req[t]))

\* the name the getlist of the loop looks up, and the value it takes
prm(t) == keys(req[t])[idx[t]]
picked_value(params, name) == last_value(params, name)

\* a loop that skips, instead of rejecting, a bad parameter after the first
validated_first_only(t) ==
    LET v == validate_param(prm(t), picked_value(req[t], prm(t)))
    IN IF idx[t] = 1 \/ v.ok THEN v ELSE valid("magtype", "")

validated(t) == validate_param(prm(t), picked_value(req[t], prm(t)))

\* except ValueError as err: return str(err), 400
InvalidParam(t) ==
    /\ more_params(t)
    /\ ~validated(t).ok
    /\ resp' = [resp EXCEPT ![t] = [status |-> 400, message |-> validated(t).msg,
                                    file |-> <<>>, mimetype |-> ""]]
    /\ pc' = [pc EXCEPT ![t] = "done"]
    /\ UNCHANGED <<query_frame, _catalog, req, idx, catalog, alias, method,
                   mimetype, worker>>

is_text_format(v) == v.ok /\ v.param = "format" /\ v.value = "text"

\* format=text: the text serializer is chosen and the loop continues
SelectFormat(t) ==
    /\ more_params(t)
    /\ is_text_format(validated(t))
    /\ mimetype' = [mimetype EXCEPT ![t] = "text/plain"]
    /\ method' = [method EXCEPT ![t] = "to_text"]
    /\ idx' = [idx EXCEPT ![t] = idx[t] + 1]
    /\ UNCHANGED <<query_frame, _catalog, pc, req, catalog, alias, worker, resp>>

\* the parameters for which apply_query_param returns the frame it was given
returns_input(param) == param \notin (DOMAIN Param \ {"magtype", "format"})

\* catalog = apply_query_param(catalog, param, value)
ApplyParam(t) ==
    /\ more_params(t)
    /\ validated(t).ok
    /\ ~is_text_format(validated(t))
    /\ LET v == validated(t)
       IN /\ \E out \in apply_query_param(catalog[t], v.param, v.value) :
                 catalog' = [catalog EXCEPT ![t] = out]
          /\ alias' = [alias EXCEPT ![t] = alias[t] /\ returns_input(v.param)]
          /\ _catalog' = IF alias[t]
                         THEN [_catalog EXCEPT
                                  !.df = input_after_apply(catalog[t], v.param, v.value)]
                         ELSE _catalog
    /\ idx' = [idx EXCEPT ![t] = idx[t] + 1]
    /\ UNCHANGED <<query_frame, pc, req, method, mimetype, worker, resp>>

\* pool.apply_async(method, args=(catalog, )) and the start of get(timeout)
Serialize(t) ==
    /\ pc[t] = "params"
    /\ idx[t] > Len(keys(req[t]))
    /\ \E d \in Durations :
           worker' = [worker EXCEPT ![t] = [state |-> "running", dur |-> d,
                                            result |-> <<>>]]
    /\ pc' = [pc EXCEPT ![t] = "wait"]
    /\ UNCHANGED <<query_frame, _catalog, req, idx, catalog, alias, method,
                   mimetype, resp>>

serialized(t) == IF method[t] = "to_text" THEN to_text(catalog[t]) ELSE to_xml(catalog[t])

\* a get() that waits without a timeout
in_time_always(dur) == TRUE

\* whether get(timeout=TIMEOUT_S) finds the result of a task that takes dur seconds
in_time(dur) == dur <= TIMEOUT_S

\* the task ends while get_events waits for it
WorkerDone(t) ==
    /\ pc[t] = "wait"
    /\ worker[t].state = "running"
    /\ in_time(worker[t].dur)
    /\ worker' = [worker EXCEPT ![t] = [@ EXCEPT !.state = "finished",
                                                 !.result = serialized(t)]]
    /\ UNCHANGED <<query_frame, _catalog, pc, req, idx, catalog, alias, method,
                   mimetype, resp>>

\* return send_file(result, as_attachment=False, mimetype=mimetype)
SendFile(t) ==
    /\ pc[t] = "wait"
    /\ worker[t].state = "finished"
    /\ resp' = [resp EXCEPT ![t] = [status |-> 200, message |-> "",
                                    file |-> <<worker[t].result>>,
                                    mimetype |-> mimetype[t]]]
    /\ pc' = [pc EXCEPT ![t] = "done"]
    /\ UNCHANGED <<query_frame, _catalog, req, idx, catalog, alias, method,
                   mimetype, worker>>

\* except TimeoutError: the task is left running and its result is dropped
Timeout(t) ==
    /\ pc[t] = "wait"
    /\ worker[t].state = "running"
    /\ ~in_time(worker[t].dur)
    /\ worker' = [worker EXCEPT ![t] = [@ EXCEPT !.state = "abandoned"]]
    /\ resp' = [resp EXCEPT ![t] =
                   [status |-> 504,
                    message |-> "Request took too long. Please narrow your search",
                    file |-> <<>>, mimetype |-> ""]]
    /\ pc' = [pc EXCEPT ![t] = "done"]
    /\ UNCHANGED <<query_frame, _catalog, req, idx, catalog, alias, method, mimetype>>

\* the task of a request that timed out ends, with nobody to read its result
AbandonedDone(t) ==
    /\ pc[t] = "done"
    /\ worker[t].state = "abandoned"
    /\ worker' = [worker EXCEPT ![t] = [@ EXCEPT !.state = "dropped",
                                                 !.result = serialized(t)]]
    /\ UNCHANGED <<query_frame, _catalog, pc, req, idx, catalog, alias, method,
                   mimetype, resp>>

(***************************************************************************)
(* The specifications.                                                     *)
(***************************************************************************)
Next ==
    \E t \in Threads :
        \/ Request(t)
        \/ Close(t)
        \/ GetCatalog(t)
        \/ CheckCache(t)
        \/ ReadHdf(t)
        \/ ReadHdfFails(t)
        \/ CheckSrc(t)
        \/ Fetch(t)
        \/ FetchFails(t)
        \/ WriteSrc(t)
        \/ WriteSrcFails(t)
        \/ ReadCsv(t)
        \/ ReadCsvFails(t)
        \/ OpenHdf(t)
        \/ WriteHdf(t)
        \/ WriteHdfFails(t)
        \/ AssignCatalog(t)
        \/ InvalidParam(t)
        \/ SelectFormat(t)
        \/ ApplyParam(t)
        \/ Serialize(t)
        \/ WorkerDone(t)
        \/ SendFile(t)
        \/ Timeout(t)
        \/ AbandonedDone(t)

Spec == Init /\ [][Next]_vars

SpecQuery == InitQuery /\ [][Next]_vars

SpecNorm == InitNorm /\ [][Next]_vars

SpecTime == InitTime /\ [][Next]_vars

(***************************************************************************)
(* The properties.  What a bound means is written here from the            *)
(* statements, apart from the operators above that model the code.         *)
(***************************************************************************)
Elems(seq) == {seq[i] : i \in 1..Len(seq)}

known(x) == x # NaN

\* whether event e is within the bound (param, v): time, latitude and
\* longitude bounds are inclusive, magnitude and depth bounds are strict,
\* and a null field is within no bound
Bounds == {"start", "end", "minlat", "maxlat", "minlon", "maxlon",
           "minmag", "maxmag", "mindepth", "maxdepth"}

within(e, param, v) ==
    CASE param = "start" -> known(v) /\ e.time >= v
      [] param = "end" -> known(v) /\ e.time <= v
      [] param = "minlat" -> known(e.latitude) /\ known(v) /\ e.latitude >= v
      [] param = "maxlat" -> known(e.latitude) /\ known(v) /\ e.latitude <= v
      [] param = "minlon" -> known(e.longitude) /\ known(v) /\ e.longitude >= v
      [] param = "maxlon" -> known(e.longitude) /\ known(v) /\ e.longitude <= v
      [] param = "minmag" -> known(e.magnitude) /\ known(v) /\ e.magnitude > v
      [] param = "maxmag" -> known(e.magnitude) /\ known(v) /\ e.magnitude < v
      [] param = "mindepth" -> known(e.depth) /\ known(v) /\ e.depth > v
      [] param = "maxdepth" -> known(e.depth) /\ known(v) /\ e.depth < v
      [] OTHER -> TRUE

\* whether event e is within the bound that the pair (name, rawValue) states
within_pair(e, pair) ==
    LET v == validate_param(pair[1], pair[2])
    IN v.ok => within(e, v.param, v.value)

bad_pair(pair) == ~validate_param(pair[1], pair[2]).ok

\* the occurrences of a request that no later occurrence of the same name follows
is_last(params, i) ==
    \A j \in (i + 1)..Len(params) : params[j][1] # params[i][1]

answered(t) == pc[t] = "done"
build_raised(t) == resp[t].status = 500

\* the step of thread t that applies a parameter of the given kinds
applies(t, kinds) ==
    /\ more_params(t)
    /\ validated(t).ok
    /\ validated(t).param \in kinds
    /\ idx'[t] = idx[t] + 1

(***************************************************************************)
(* C1 as stated: a request that is answered with a file gets exactly the   *)
(* events of the catalog that are within the bound of every (name, value)  *)
(* pair it holds, repeated names included.                                 *)
(***************************************************************************)
C1_EveryOccurrenceApplies ==
    \A t \in Threads :
        (answered(t) /\ resp[t].status = 200) =>
            Elems(catalog[t]) =
                {e \in Elems(_catalog.df) :
                    \A i \in 1..Len(req[t]) : within_pair(e, req[t][i])}

(***************************************************************************)
(* C1 as amended: a request that is answered with a file gets exactly the  *)
(* events of the catalog that are within the bound of the last value given *)
(* for each name; the earlier values of a repeated name are dropped.       *)
(***************************************************************************)
C1_LastOccurrenceApplies ==
    \A t \in Threads :
        (answered(t) /\ resp[t].status = 200) =>
            Elems(catalog[t]) =
                {e \in Elems(_catalog.df) :
                    \A i \in 1..Len(req[t]) :
                        is_last(req[t], i) => within_pair(e, req[t][i])}

\* a file answers minmag=7&minmag=5, and holds an event of magnitude 6.5
C1_Witness ==
    \E t \in Threads :
        /\ answered(t) /\ resp[t].status = 200
        /\ req[t] = << <<"minmag", "7">>, <<"minmag", "5">> >>
        /\ \E e \in Elems(catalog[t]) : e.magnitude = 65

(***************************************************************************)
(* C2 as stated: no two threads are inside create_catalog at once.         *)
(***************************************************************************)
in_create_catalog(t) ==
    pc[t] \in {"create_catalog", "read_hdf", "check_src", "fetch", "write_src",
               "read_csv", "to_hdf", "write_hdf", "return_cached", "return_built"}

C2_SingleBuild ==
    \A t, u \in Threads : (in_create_catalog(t) /\ in_create_catalog(u)) => t = u

(***************************************************************************)
(* C3: a step that applies a bound leaves in the view exactly the events   *)
(* within the bound, in the order they had: start/end and latitude and     *)
(* longitude bounds are inclusive, magnitude and depth bounds strict, and  *)
(* an event whose magnitude or depth is null is within no such bound.      *)
(***************************************************************************)
C3_BoundSemantics ==
    [][\A t \in Threads :
          applies(t, Bounds) =>
              catalog'[t] = SelectSeq(catalog[t],
                  LAMBDA e : within(e, validated(t).param, validated(t).value))]_vars

\* minmag=6.5 was applied to the catalog: the events of magnitude 6.5 and the
\* event of null magnitude are out, the event of magnitude 7 is in
C3_Witness ==
    \E t \in Threads :
        /\ pc[t] = "params" /\ idx[t] = 2
        /\ req[t][1] = <<"minmag", "6.5">>
        /\ \E e \in Elems(_catalog.df) : e.magnitude = 65 /\ e \notin Elems(catalog[t])
        /\ \E e \in Elems(_catalog.df) : e.magnitude = NaN /\ e \notin Elems(catalog[t])
        /\ \E e \in Elems(catalog[t]) : e.magnitude = 70

(***************************************************************************)
(* C4 as stated: a request that holds a pair with an unknown name or a     *)
(* value outside its domain runs no serializer and gets no file, and is    *)
(* answered 400 with the message of validate_param (the build of the       *)
(* catalog not having raised).                                             *)
(***************************************************************************)
C4_rejected(t) ==
    /\ worker[t].state = "none"
    /\ resp[t].file = <<>>
    /\ (answered(t) /\ ~build_raised(t)) =>
           /\ resp[t].status = 400
           /\ \E i \in 1..Len(req[t]) :
                  resp[t].message = validate_param(req[t][i][1], req[t][i][2]).msg

C4_AnyBadPairRejects ==
    \A t \in Threads :
        (\E i \in 1..Len(req[t]) : bad_pair(req[t][i])) => C4_rejected(t)

(***************************************************************************)
(* C4 as amended: the same of a request in which the last value given for  *)
(* some name is outside its domain, or some name is unknown; a bad value   *)
(* that a later value of the same name follows is not looked at.           *)
(***************************************************************************)
C4_LastBadPairRejects ==
    \A t \in Threads :
        (\E i \in 1..Len(req[t]) : is_last(req[t], i) /\ bad_pair(req[t][i]))
            => C4_rejected(t)

\* 400 answers a request whose second pair is the bad one
C4_Witness ==
    \E t \in Threads :
        /\ answered(t) /\ resp[t].status = 400
        /\ req[t] = << <<"minmag", "5">>, <<"mag>8", "7">> >>
        /\ catalog[t] # _catalog.df

(***************************************************************************)
(* C5: a request whose serializer takes longer than TIMEOUT_S is answered  *)
(* 504 with no file, whatever the task does afterwards, and 504 answers    *)
(* no other request; a serializer that ends in time is answered 200.       *)
(***************************************************************************)
C5_Timeout ==
    \A t \in Threads :
        /\ (answered(t) /\ worker[t].state # "none" /\ worker[t].dur > TIMEOUT_S) =>
               (resp[t].status = 504 /\ resp[t].file = <<>>)
        /\ (answered(t) /\ worker[t].state # "none" /\ worker[t].dur <= TIMEOUT_S) =>
               (resp[t].status = 200 /\ resp[t].file = <<worker[t].result>>)
        /\ resp[t].status = 504 =>
               (worker[t].state \in {"abandoned", "dropped"} /\ worker[t].dur > TIMEOUT_S)

\* a request was answered 504 and its task has ended since
C5_Witness ==
    \E t \in Threads :
        /\ answered(t) /\ resp[t].status = 504
        /\ worker[t].state = "dropped" /\ worker[t].result # <<>>

(***************************************************************************)
(* C6: once the catalog is built no step of a request changes it.          *)
(***************************************************************************)
C6_CatalogUntouched ==
    [][~_catalog.is_none => _catalog' = _catalog]_vars

\* a request that sorted the whole catalog into another order timed out
C6_Witness ==
    \E t \in Threads :
        /\ answered(t) /\ resp[t].status = 504
        /\ \E i \in 1..Len(req[t]) : req[t][i][1] = "orderby"
        /\ Len(catalog[t]) = Len(_catalog.df)
        /\ catalog[t] # _catalog.df

(***************************************************************************)
(* C7 as stated: a step that applies orderby leaves a permutation of the   *)
(* view sorted by the key in the direction asked, the events of null key   *)
(* last, and events of equal keys in the order they had.                   *)
(***************************************************************************)
count(seq, e) == Cardinality({i \in 1..Len(seq) : seq[i] = e})

C7_permutation(old, new) ==
    /\ Len(new) = Len(old)
    /\ \A e \in Elems(old) : count(new, e) = count(old, e)

C7_sorted(new, by, ascending) ==
    \A i, j \in 1..Len(new) :
        i < j =>
            /\ known(new[i][by]) \/ ~known(new[j][by])
            /\ (known(new[i][by]) /\ known(new[j][by])) =>
                   IF ascending THEN new[i][by] <= new[j][by]
                   ELSE new[i][by] >= new[j][by]

C7_position(seq, e) == CHOOSE k \in 1..Len(seq) : seq[k] = e

C7_stable(old, new, by) ==
    \A i, j \in 1..Len(old) :
        (i < j /\ old[i][by] = old[j][by]) =>
            C7_position(new, old[i]) < C7_position(new, old[j])

C7_StableSort ==
    [][\A t \in Threads :
          applies(t, {"orderby"}) =>
              LET by == validated(t).value[1]
                  ascending == validated(t).value[2]
              IN /\ C7_permutation(catalog[t], catalog'[t])
                 /\ C7_sorted(catalog'[t], by, ascending)
                 /\ C7_stable(catalog[t], catalog'[t], by)]_vars

(***************************************************************************)
(* C7 as amended: the same without the order of equal keys, which is any:  *)
(* a permutation of the view sorted by the key in the direction asked,     *)
(* the events of null key last.                                            *)
(***************************************************************************)
C7_Sort ==
    [][\A t \in Threads :
          applies(t, {"orderby"}) =>
              LET by == validated(t).value[1]
                  ascending == validated(t).value[2]
              IN /\ C7_permutation(catalog[t], catalog'[t])
                 /\ C7_sorted(catalog'[t], by, ascending)]_vars

\* orderby=magnitude was applied to the catalog, which holds two events of
\* one magnitude and an event of null magnitude that was not the last
C7_Witness ==
    \E t \in Threads :
        /\ pc[t] = "params" /\ idx[t] = 2
        /\ req[t][1] = <<"orderby", "magnitude">>
        /\ Len(catalog[t]) = Len(_catalog.df)
        /\ catalog[t][Len(catalog[t])].magnitude = NaN
        /\ _catalog.df[Len(_catalog.df)].magnitude # NaN
        /\ \E i, j \in 1..Len(catalog[t]) :
               i # j /\ catalog[t][i].magnitude = catalog[t][j].magnitude

(***************************************************************************)
(* C8 as stated: in the text lines of an answer, the Catalog, Contributor  *)
(* and ContributorID fields of an event are empty when its isc_id is 0,    *)
(* and hold the label and the id only when it is positive.                 *)
(***************************************************************************)
column(name) == CHOOSE k \in 1..Len(TextHeader) : TextHeader[k] = name

text_answer(t) ==
    answered(t) /\ resp[t].status = 200 /\ resp[t].mimetype = "text/plain"

C8_contributor_fields(line, e) ==
    /\ e.isc_id = 0 =>
           (line[column("Contributor")] = "" /\ line[column("ContributorID")] = "")
    /\ e.isc_id > 0 =>
           /\ line[column("Contributor")] = "ISC"
           /\ line[column("ContributorID")] = ToString(e.isc_id)
    /\ line[column("Contributor")] # "" => e.isc_id > 0
    /\ line[column("ContributorID")] # "" => e.isc_id > 0

C8_CatalogColumnsEmpty ==
    \A t \in Threads :
        text_answer(t) =>
            \A i \in 1..Len(catalog[t]) :
                LET line == resp[t].file[1][i + 1]
                    e == catalog[t][i]
                IN /\ C8_contributor_fields(line, e)
                   /\ e.isc_id = 0 => line[column("Catalog")] = ""
                   /\ line[column("Catalog")] # "" => e.isc_id > 0

(***************************************************************************)
(* C8 as amended: the Contributor and ContributorID fields are empty when  *)
(* isc_id is 0 and hold 'ISC' and the id only when it is positive; the     *)
(* Catalog field is 'EMEC-2021' for every event.                           *)
(***************************************************************************)
C8_ContributorColumns ==
    \A t \in Threads :
        text_answer(t) =>
            /\ Len(resp[t].file[1]) = Len(catalog[t]) + 1
            /\ \A i \in 1..Len(catalog[t]) :
                   LET line == resp[t].file[1][i + 1]
                       e == catalog[t][i]
                   IN /\ C8_contributor_fields(line, e)
                      /\ line[column("Catalog")] = "EMEC-2021"

\* a text answer holds an event with isc_id 0 and one with a positive isc_id
C8_Witness ==
    \E t \in Threads :
        /\ text_answer(t)
        /\ \E e \in Elems(catalog[t]) : e.isc_id = 0
        /\ \E e \in Elems(catalog[t]) : e.isc_id > 0

(***************************************************************************)
(* C9 as stated: in a catalog that create_catalog returns, event_id, time, *)
(* latitude, longitude, magnitudetype, originalmag, originalmagtype and    *)
(* isc_id are not null, whatever the raw rows lack.                        *)
(***************************************************************************)
returned(t) == pc[t] \in {"return_cached", "return_built"}

C9_filled(e) ==
    /\ known(e.event_id) /\ known(e.time) /\ known(e.isc_id)
    /\ e.magnitudetype # NA /\ e.originalmagtype # NA

C9_raw_kept(e, r) ==
    /\ e.isc_id = (IF r.isc_id = NaN THEN 0 ELSE r.isc_id)
    /\ e.originalmagtype = (IF r.originalmagtype = NA THEN "" ELSE r.originalmagtype)
    /\ e.latitude = r.latitude /\ e.longitude = r.longitude
    /\ e.originalmag = r.originalmag
    /\ e.depth = r.depth /\ e.magnitude = r.mw

C10_CacheReadComplete ==
    \A t \in Threads :
        pc[t] = "return_cached" => emec_df[t] = process_source_catalog(src).df

(***************************************************************************)
(* C11 as stated: the time of every event of a catalog that create_catalog *)
(* returns is midnight of the date (year, month', day') of its raw row     *)
(* plus hour*3600 + minute*60 + second seconds, a missing component        *)
(* counting 0 and month' and day' being 1 when the raw month or day is     *)
(* missing or 0; month 0, day 0, 23:59:60 gives January 2nd, 00:00:00.     *)
(***************************************************************************)
C11_or(x, v) == IF x = NaN \/ x = 0 THEN v ELSE x

\* midnight of the date (year, month', day'), in seconds since the epoch
C11_midnight(r) ==
    (toordinal(r.year, C11_or(r.month, 1), C11_or(r.day, 1)) - EpochOrdinal) * 86400

\* tenths of a second between the event's time and the hour and minute of
\* its raw row
C11_tenths(e, r) ==
    10 * (e.time - C11_midnight(r) - C11_or(r.hour, 0) * 3600
              - C11_or(r.minute, 0) * 60)

C11_is_example(r) ==
    r.month = 0 /\ r.day = 0 /\ r.hour = 23 /\ r.minute = 59 /\ r.second = 600

C11_ExactRollover ==
    \A t \in Threads :
        returned(t) =>
            \A e \in Elems(emec_df[t]) :
                \A r \in Elems(src) :
                    r.event_id = e.event_id =>
                        /\ C11_tenths(e, r) = C11_or(r.second, 0)
                        /\ C11_is_example(r) =>
                               fromtimestamp(e.time) = <<r.year, 1, 2, 0, 0, 0>>

\* what the build does: the same with the second cut to a whole number
C11_WholeSeconds ==
    \A t \in Threads :
        returned(t) =>
            \A e \in Elems(emec_df[t]) :
                \A r \in Elems(src) :
                    r.event_id = e.event_id =>
                        /\ C11_tenths(e, r) = 10 * (C11_or(r.second, 0) \div 10)
                        /\ C11_is_example(r) =>
                               fromtimestamp(e.time) = <<r.year, 1, 2, 0, 0, 0>>

\* the rollover reaches the next year: December 31st, 23:59:60
C11_NewYear ==
    \E t \in Threads :
        /\ pc[t] = "return_built"
        /\ \E e \in Elems(emec_df[t]) :
               \E r \in Elems(src) :
                   /\ r.event_id = e.event_id
                   /\ r.month = 12 /\ r.day = 31 /\ r.second = 600 /\ r.hour = 23
                   /\ r.minute = 59
                   /\ fromtimestamp(e.time) = <<r.year + 1, 1, 1, 0, 0, 0>>

====
